---- MODULE Spec2Model ----
(***************************************************************************)
(* Link Saver: the bookmark ingestion pipeline and the list controller of  *)
(* components/Dashboard.js, with the fetchers of lib/utils.js.             *)
(*                                                                         *)
(* Strings are sequences of chunks: user input is a sequence of one-       *)
(* character chunks, literals of the code are one chunk each.              *)
(***************************************************************************)
EXTENDS Integers, Sequences, FiniteSets, TLC

(* ------------------------------ bounds -------------------------------- *)
\* addBookmark invocations that may pass validation (rows the store may gain)
MaxAdds == 1
\* addBookmark invocations that can be tracked at once
MaxSlots == 2
\* deleteBookmark calls in flight at once
MaxDeletes == 1
\* Date.now() reads 0..MaxClock
MaxClock == 1
\* deleteBookmark calls in flight at once, where deletes overlap
MaxDeleteCalls == 2
\* the longest raw tag string, where every raw tag string is tried
MaxTagLen == 4
\* the most spaces before the text of a response body
MaxLead == 12

(* ------------------------------ strings ------------------------------- *)
Min(a, b) == IF a < b THEN a ELSE b

IsSpace(c) == c = " "

RECURSIVE TrimStart(_)
TrimStart(s) ==
  IF s # <<>> /\ IsSpace(Head(s)) THEN TrimStart(Tail(s)) ELSE s

RECURSIVE TrimEnd(_)
TrimEnd(s) ==
  IF s # <<>> /\ IsSpace(s[Len(s)]) THEN TrimEnd(SubSeq(s, 1, Len(s) - 1)) ELSE s

\* String.prototype.trim
Trim(s) == TrimEnd(TrimStart(s))

\* String.prototype.startsWith
StartsWith(s, p) == Len(s) >= Len(p) /\ SubSeq(s, 1, Len(p)) = p

\* String.prototype.toLowerCase, on the letters of the input alphabet
LowerChar(c) ==
  CASE c = "A" -> "a"
    [] c = "B" -> "b"
    [] c = "I" -> "i"
    [] c = "O" -> "o"
    [] OTHER -> c

ToLowerCase(s) == [k \in 1..Len(s) |-> LowerChar(s[k])]

\* String.prototype.split on a one-character separator
RECURSIVE SplitAcc(_, _, _)
SplitAcc(s, sep, cur) ==
  IF s = <<>> THEN <<cur>>
  ELSE IF Head(s) = sep THEN <<cur>> \o SplitAcc(Tail(s), sep, <<>>)
  ELSE SplitAcc(Tail(s), sep, Append(cur, Head(s)))

Split(s, sep) == SplitAcc(s, sep, <<>>)

Includes(s, x) == \E k \in 1..Len(s) : s[k] = x

\* findIndex(b => b.id === id): 0-based, -1 when absent
FindIndexById(s, id) ==
  IF \E k \in 1..Len(s) : s[k].id = id
  THEN (CHOOSE k \in 1..Len(s) : s[k].id = id /\ \A j \in 1..(k - 1) : s[j].id # id) - 1
  ELSE -1

(* -------------------------------- URL --------------------------------- *)
HTTP == <<"h", "t", "t", "p">>
HTTPS == <<"h", "t", "t", "p", "s">>
HttpsPrefix == <<"h", "t", "t", "p", "s", ":", "/", "/">>

\* 0-based position of the first c in s, Len(s) when absent
RECURSIVE IndexOfFrom(_, _, _)
IndexOfFrom(s, c, k) ==
  IF k > Len(s) THEN Len(s)
  ELSE IF s[k] = c THEN k - 1
  ELSE IndexOfFrom(s, c, k + 1)

IndexOf(s, c) == IndexOfFrom(s, c, 1)

RECURSIVE SkipSlashes(_)
SkipSlashes(s) == IF s # <<>> /\ Head(s) = "/" THEN SkipSlashes(Tail(s)) ELSE s

\* new URL(input) without a base, for http(s) input over the input alphabet:
\* surrounding spaces are stripped, the scheme is the letters before the first
\* ":", the host runs to the next "/", and a host that is empty or holds a
\* space makes the constructor throw; an empty path becomes "/".
ParseURL(input) ==
  LET s == Trim(input)
      colon == IndexOf(s, ":")
      scheme == ToLowerCase(SubSeq(s, 1, colon))
      rest == SkipSlashes(SubSeq(s, colon + 2, Len(s)))
      slash == IndexOf(rest, "/")
      host == ToLowerCase(SubSeq(rest, 1, slash))
      path == SubSeq(rest, slash + 1, Len(rest))
      ok == /\ colon < Len(s)
            /\ scheme \in {HTTP, HTTPS}
            /\ host # <<>>
            /\ \A k \in 1..Len(host) : ~IsSpace(host[k])
  IN  IF ok
      THEN [ok |-> TRUE,
            hostname |-> host,
            href |-> scheme \o <<":", "/", "/">> \o host
                       \o (IF path = <<>> THEN <<"/">> ELSE path)]
      ELSE [ok |-> FALSE, hostname |-> <<>>, href |-> <<>>]

\* addBookmark: the argument handed to new URL
WithScheme(urlToSave) ==
  IF StartsWith(urlToSave, HTTP) THEN urlToSave ELSE HttpsPrefix \o urlToSave

\* lib/utils.js getFaviconUrl
getFaviconUrl(url) ==
  LET urlObj == ParseURL(url)
  IN  IF urlObj.ok
      THEN <<"https://www.google.com/s2/favicons?domain=">> \o urlObj.hostname
             \o <<"&sz=32">>
      ELSE <<"/favicon.ico">>

(* -------------------------------- tags -------------------------------- *)
\* a filter that keeps every segment: tag => tag.length >= 0
AnyLength(tag) == Len(tag) >= 0

NonEmpty(tag) == Len(tag) > 0

\* the tags without toLowerCase(): map(tag => tag.trim())
ParseTagsAsTyped(tagsToSave) ==
  LET parts == Split(tagsToSave, ",")
      mapped == [k \in 1..Len(parts) |-> Trim(parts[k])]
  IN  SelectSeq(mapped, NonEmpty)

\* addBookmark: split(','), map(trim().toLowerCase()), filter(length > 0)
ParseTags(tagsToSave) ==
  LET parts == Split(tagsToSave, ",")
      mapped == [k \in 1..Len(parts) |-> ToLowerCase(Trim(parts[k]))]
  IN  SelectSeq(mapped, NonEmpty)

(* ------------------------------ fetchers ------------------------------ *)
\* summary text: a literal of the code (lit, with the status it embeds), or
\* chars characters of a response body, with or without the '...' appended
Literal(lit, status) == [lit |-> lit, status |-> status, chars |-> 0, ellipsis |-> FALSE]
BodyText(chars, ellipsis) == [lit |-> "", status |-> 0, chars |-> chars, ellipsis |-> ellipsis]

UnableToGenerate == Literal("Unable to generate summary for this URL.", 0)
UnableStatus(status) == Literal("Unable to generate summary for this URL. (Status: )", status)
CouldNotGenerate == Literal("Could not generate summary for this page.", 0)
GeneratingSummary == Literal("Generating summary...", 0)
LoadingTitle == <<"Loading...">>

\* generateSummary: a body shorter than this is unusable
MinSummaryLength == 10
\* generateSummary: the longest summary kept whole
MaxSummaryLength == 400

\* what a fetcher hands to its caller
Resolved(value) == [threw |-> FALSE, value |-> value]
Rejected == [threw |-> TRUE, value |-> <<>>]

\* a response of the reader service: fetch throws, or a status and a body of
\* lead spaces, core characters (no space at either end) and trail spaces
SummaryResponse(throws, status, lead, core, trail) ==
  [throws |-> throws, status |-> status, lead |-> lead, core |-> core, trail |-> trail]

ResponseOk(status) == status >= 200 /\ status <= 299

\* lib/utils.js generateSummary
generateSummary(url, response) ==
  IF response.throws THEN Resolved(UnableToGenerate)
  ELSE IF ~ResponseOk(response.status) THEN Resolved(UnableStatus(response.status))
  ELSE LET length == response.lead + response.core + response.trail
           cleanLength == response.core
       IN  IF length = 0 \/ length < MinSummaryLength THEN Resolved(UnableToGenerate)
           ELSE IF cleanLength > MaxSummaryLength
                THEN Resolved(BodyText(MaxSummaryLength, TRUE))
                ELSE Resolved(BodyText(cleanLength, FALSE))

\* a response of /api/get-title: fetch or json() throws, or a JSON object whose
\* title is the given string (empty when the field is absent)
TitleResponse(throws, title) == [throws |-> throws, title |-> title]

\* new URL(url).hostname: throws on a string that is no absolute URL
Hostname(url) ==
  IF ParseURL(url).ok THEN Resolved(ParseURL(url).hostname) ELSE Rejected

\* getPageTitle without its try/catch
getPageTitleRejects(url, response) ==
  IF response.throws THEN Rejected
  ELSE IF response.title # <<>> THEN Resolved(response.title)
  ELSE Hostname(url)

\* lib/utils.js getPageTitle
getPageTitle(url, response) ==
  IF response.throws THEN Hostname(url)
  ELSE IF response.title # <<>> THEN Resolved(response.title)
  ELSE Hostname(url)

\* promise.catch(() => fallback)
Catch(settled, fallback) == IF settled.threw THEN fallback ELSE settled.value

(* ------------------------------- inputs ------------------------------- *)
Me == "user-me"
Other == "user-other"

RawUrls ==
  { <<" ">>,
    <<"a", " ", "b">>,
    <<"A", ".", "i", "o">> }

RawTags == { <<>>, <<"B", ",", " ", "b">> }

TitleResponses == { TitleResponse(TRUE, <<>>), TitleResponse(FALSE, <<>>),
                    TitleResponse(FALSE, <<"T">>) }

SummaryResponses == { SummaryResponse(TRUE, 0, 0, 0, 0),
                      SummaryResponse(FALSE, 500, 0, 0, 0),
                      SummaryResponse(FALSE, 200, 1, 50, 1) }

\* ids: the store's uuids and the client's millisecond readings never compare equal
Uuid(n) == <<"uuid", n>>
Millis(t) == <<"ms", t>>

Host(c) == <<c, ".", "i", "o">>
Href(c) == HttpsPrefix \o Host(c) \o <<"/">>

\* the rows of the table when the session starts
InitialRows ==
  { [id |-> Uuid(1), user_id |-> Me, url |-> Href("a"), title |-> Host("a"),
     summary |-> BodyText(50, FALSE), favicon |-> getFaviconUrl(Href("a")),
     tags |-> << <<"a">> >>, created_at |-> -3],
    [id |-> Uuid(2), user_id |-> Me, url |-> Href("b"), title |-> Host("b"),
     summary |-> BodyText(50, FALSE), favicon |-> getFaviconUrl(Href("b")),
     tags |-> << <<"a">>, <<"b">> >>, created_at |-> -2],
    [id |-> Uuid(3), user_id |-> Other, url |-> Href("o"), title |-> Host("o"),
     summary |-> BodyText(50, FALSE), favicon |-> getFaviconUrl(Href("o")),
     tags |-> << <<"b">> >>, created_at |-> -1] }

FirstNewId == Cardinality(InitialRows) + 1

(* -------------------------------- state ------------------------------- *)
VARIABLES
  store,          \* the bookmarks table
  nextId,         \* the table's sequence: the next id and creation time it hands out
  bookmarks,      \* useState([])
  loading,        \* useState(true)
  saving,         \* useState(false)
  deleting,       \* useState(null)
  newUrl,         \* useState('')
  newTags,        \* useState('')
  error,          \* useState('')
  selectedTags,   \* useState([])
  availableTags,  \* useState([])
  draggedItem,    \* useState(null)
  inv,            \* the addBookmark invocations: locals and position
  dels,           \* the deleteBookmark calls awaiting the store
  session,        \* history: ids loaded or stored in this session and not deleted
  answered        \* history: the store's answer to a delete, until the next step

vars == <<store, nextId, bookmarks, loading, saving, deleting, newUrl, newTags,
          error, selectedTags, availableTags, draggedItem, inv, dels, session,
          answered>>

Null == <<"null">>
NoItem == [id |-> Null]
NoAnswer == [id |-> Null, ok |-> FALSE]

FailedToLoad == "Failed to load bookmarks"
FailedToAdd == "Failed to add bookmark. Please check the URL."
FailedToDelete == "Failed to delete bookmark"

Slots == 1..MaxSlots

Pending == [threw |-> FALSE, done |-> FALSE, value |-> <<>>]
PendingSummary == [threw |-> FALSE, done |-> FALSE, value |-> GeneratingSummary]

NoRow == [user_id |-> "", url |-> <<>>, title |-> <<>>, summary |-> GeneratingSummary,
          favicon |-> <<>>, tags |-> <<>>]

\* no invocation in the slot
Idle ==
  [pc |-> "idle", urlToSave |-> <<>>, tagsToSave |-> <<>>, url |-> <<>>, tags |-> <<>>,
   tempId |-> Null, title |-> Pending, summary |-> PendingSummary, row |-> NoRow,
   before |-> <<>>, clean |-> TRUE]

\* awaiting the fetchers or the store
Running == {"fetching", "inserting"}
\* the invocation's last step was the last handler to run
JustEnded == {"rejected", "stored", "failed"}

InFlight(i) == inv[i].pc \in Running

IsLoading(bookmark) == "isLoading" \in DOMAIN bookmark /\ bookmark.isLoading
NotLoading(bookmark) == ~IsLoading(bookmark)

\* useEffect on [bookmarks]: Array.from(new Set of every tag), first seen first
RECURSIVE Distinct(_)
Distinct(s) ==
  IF s = <<>> THEN <<>>
  ELSE LET init == Distinct(SubSeq(s, 1, Len(s) - 1))
       IN  IF Includes(init, s[Len(s)]) THEN init ELSE Append(init, s[Len(s)])

RECURSIVE AllTags(_)
AllTags(list) == IF list = <<>> THEN <<>> ELSE Head(list).tags \o AllTags(Tail(list))

DerivedTags(list) == Distinct(AllTags(list))

\* select('*').eq('user_id', owner).order('created_at', {ascending: false}):
\* every ordering of the owner's rows that is descending in created_at
RECURSIVE Descending(_)
Descending(rows) ==
  IF rows = {} THEN {<<>>}
  ELSE UNION { { <<r>> \o rest : rest \in Descending(rows \ {r}) } :
               r \in {x \in rows : \A y \in rows : x.created_at >= y.created_at} }

\* the list query without .eq('user_id', user.id)
SelectEveryOwner(owner) == Descending(store)

SelectOwned(owner) == Descending({r \in store : r.user_id = owner})

Init ==
  /\ store = InitialRows
  /\ nextId = FirstNewId
  /\ bookmarks = <<>>
  /\ loading = TRUE
  /\ saving = FALSE
  /\ deleting = Null
  /\ newUrl = <<>>
  /\ newTags = <<>>
  /\ error = ""
  /\ selectedTags = <<>>
  /\ availableTags = <<>>
  /\ draggedItem = NoItem
  /\ inv = [i \in Slots |-> Idle]
  /\ dels = <<>>
  /\ session = {}
  /\ answered = NoAnswer

\* a handler that is no step of invocation i ran: the running invocations saw
\* another operation (their record of the list before the call is given up), and
\* no invocation's step is the last one any more
Disturb(i, slots) ==
  [j \in Slots |->
     IF j = i THEN slots[j]
     ELSE IF slots[j].pc \in Running
          THEN [slots[j] EXCEPT !.clean = FALSE, !.before = <<>>]
     ELSE Idle]

(* --------------------------- fetchBookmarks --------------------------- *)
FetchBookmarksOk ==
  /\ loading
  /\ \E data \in SelectOwned(Me) :
       /\ bookmarks' = data
       /\ availableTags' = DerivedTags(data)
       /\ session' = {data[k].id : k \in 1..Len(data)}
  /\ loading' = FALSE
  /\ answered' = NoAnswer
  /\ UNCHANGED <<store, nextId, saving, deleting, newUrl, newTags, error,
                 selectedTags, draggedItem, inv, dels>>

FetchBookmarksError ==
  /\ loading
  /\ error' = FailedToLoad
  /\ loading' = FALSE
  /\ answered' = NoAnswer
  /\ UNCHANGED <<store, nextId, bookmarks, saving, deleting, newUrl, newTags,
                 selectedTags, availableTags, draggedItem, inv, dels, session>>

(* ----------------------------- addBookmark ----------------------------- *)
\* the form is rendered once the list has loaded, its fields disabled={saving}
FormEnabled == ~loading /\ ~saving

\* onChange of the two inputs
SetNewUrl(value) ==
  /\ newUrl' = value
  /\ inv' = Disturb(0, inv)
  /\ answered' = NoAnswer
  /\ UNCHANGED <<store, nextId, bookmarks, loading, saving, deleting, newTags,
                 error, selectedTags, availableTags, draggedItem, dels, session>>

SetNewTags(value) ==
  /\ newTags' = value
  /\ inv' = Disturb(0, inv)
  /\ answered' = NoAnswer
  /\ UNCHANGED <<store, nextId, bookmarks, loading, saving, deleting, newUrl,
                 error, selectedTags, availableTags, draggedItem, dels, session>>

\* the slot the next invocation is tracked in
FreeSlot(i) == ~InFlight(i) /\ \A j \in 1..(i - 1) : InFlight(j)

\* invocations that passed validation so far
Started == (nextId - FirstNewId) + Cardinality({i \in Slots : InFlight(i)})

Placeholder(tempId, url, tags, createdAt) ==
  [id |-> tempId, url |-> url.href, title |-> LoadingTitle, summary |-> GeneratingSummary,
   favicon |-> getFaviconUrl(url.href), tags |-> tags, created_at |-> createdAt,
   isLoading |-> TRUE]

\* the catch block without setNewUrl(urlToSave) and setNewTags(tagsToSave)
CatchAddForgetsForm(urlToSave, tagsToSave) ==
  /\ error' = FailedToAdd
  /\ newUrl' = newUrl
  /\ newTags' = newTags
  /\ bookmarks' = SelectSeq(bookmarks, NotLoading)
  /\ availableTags' = DerivedTags(bookmarks')
  /\ saving' = FALSE

\* the catch block dropping the head of the list: prev.slice(1)
CatchAddDropsHead(urlToSave, tagsToSave) ==
  /\ error' = FailedToAdd
  /\ newUrl' = urlToSave
  /\ newTags' = tagsToSave
  /\ bookmarks' = SubSeq(bookmarks, 2, Len(bookmarks))
  /\ availableTags' = DerivedTags(bookmarks')
  /\ saving' = FALSE

\* catch: setError, restore the form, drop the placeholder; finally: setSaving(false)
CatchAdd(urlToSave, tagsToSave) ==
  /\ error' = FailedToAdd
  /\ newUrl' = urlToSave
  /\ newTags' = tagsToSave
  /\ bookmarks' = SelectSeq(bookmarks, NotLoading)
  /\ availableTags' = DerivedTags(bookmarks')
  /\ saving' = FALSE

\* addBookmark reads the form through rawUrl and rawTags: newUrl and newTags as
\* the handler's render saw them

\* if (!newUrl.trim()) return
AddBookmarkBlank(i, rawUrl) ==
  /\ FreeSlot(i)
  /\ Trim(rawUrl) = <<>>
  /\ inv' = Disturb(0, inv)
  /\ answered' = NoAnswer
  /\ UNCHANGED <<store, nextId, bookmarks, loading, saving, deleting, newUrl,
                 newTags, error, selectedTags, availableTags, draggedItem, dels, session>>

\* new URL(...) throws: the catch and finally blocks run in the same turn
AddBookmarkInvalid(i, rawUrl, rawTags) ==
  /\ FreeSlot(i)
  /\ Trim(rawUrl) # <<>>
  /\ ~ParseURL(WithScheme(rawUrl)).ok
  /\ CatchAdd(rawUrl, rawTags)
  /\ inv' = [Disturb(i, inv) EXCEPT ![i] =
       [Idle EXCEPT !.pc = "rejected", !.urlToSave = rawUrl, !.tagsToSave = rawTags,
                    !.before = bookmarks]]
  /\ answered' = NoAnswer
  /\ UNCHANGED <<store, nextId, loading, deleting, selectedTags, draggedItem, dels,
                 session>>

\* up to the first await: the placeholder is queued, then both fetchers are called
AddBookmarkStart(i, limit, rawUrl, rawTags) ==
  /\ FreeSlot(i)
  /\ Started < limit
  /\ Trim(rawUrl) # <<>>
  /\ LET urlToSave == rawUrl
         tagsToSave == rawTags
         url == ParseURL(WithScheme(urlToSave))
         tags == ParseTags(tagsToSave)
     IN  /\ url.ok
         /\ \E t \in 0..MaxClock :
              LET tempId == Millis(t)
                  placeholderBookmark == Placeholder(tempId, url, tags, t)
              IN  /\ bookmarks' = <<placeholderBookmark>> \o bookmarks
                  /\ availableTags' = DerivedTags(bookmarks')
                  /\ inv' = [Disturb(i, inv) EXCEPT ![i] =
                       [pc |-> "fetching", urlToSave |-> urlToSave,
                        tagsToSave |-> tagsToSave, url |-> url.href, tags |-> tags,
                        tempId |-> tempId, title |-> Pending, summary |-> PendingSummary,
                        row |-> NoRow, before |-> bookmarks, clean |-> TRUE]]
  /\ saving' = TRUE
  /\ error' = ""
  /\ newUrl' = <<>>
  /\ newTags' = <<>>
  /\ answered' = NoAnswer
  /\ UNCHANGED <<store, nextId, loading, deleting, selectedTags, draggedItem, dels,
                 session>>

\* Promise.race in place of Promise.all
AnySettled(title, summary) == title.done \/ summary.done

\* Promise.all resolves once every fetcher has settled
AllSettled(title, summary) == title.done /\ summary.done

\* the placeholder's fields handed to insert()
InsertRowOfPlaceholder(s, title, summary) ==
  [user_id |-> Me, url |-> s.url, title |-> LoadingTitle, summary |-> GeneratingSummary,
   favicon |-> getFaviconUrl(s.url), tags |-> s.tags]

\* the row handed to insert()
InsertRow(s, title, summary) ==
  [user_id |-> Me, url |-> s.url, title |-> title, summary |-> summary,
   favicon |-> getFaviconUrl(s.url), tags |-> s.tags]

\* after a fetcher settles: when Promise.all resolves the insert is issued at once
AfterSettle(s) ==
  IF AllSettled(s.title, s.summary)
  THEN [s EXCEPT !.pc = "inserting",
                 !.row = InsertRow(s, s.title.value, s.summary.value)]
  ELSE s

TitleSettles(i, response) ==
  /\ inv[i].pc = "fetching"
  /\ ~inv[i].title.done
  /\ LET settled == getPageTitle(inv[i].url, response)
         title == Catch(settled, inv[i].url)
     IN  inv' = [Disturb(i, inv) EXCEPT ![i] =
           AfterSettle([inv[i] EXCEPT !.title = [threw |-> settled.threw, done |-> TRUE,
                                                  value |-> title]])]
  /\ answered' = NoAnswer
  /\ UNCHANGED <<store, nextId, bookmarks, loading, saving, deleting, newUrl,
                 newTags, error, selectedTags, availableTags, draggedItem, dels, session>>

SummarySettles(i, response) ==
  /\ inv[i].pc = "fetching"
  /\ ~inv[i].summary.done
  /\ LET settled == generateSummary(inv[i].url, response)
         summary == Catch(settled, CouldNotGenerate)
     IN  inv' = [Disturb(i, inv) EXCEPT ![i] =
           AfterSettle([inv[i] EXCEPT !.summary = [threw |-> settled.threw, done |-> TRUE,
                                                    value |-> summary]])]
  /\ answered' = NoAnswer
  /\ UNCHANGED <<store, nextId, bookmarks, loading, saving, deleting, newUrl,
                 newTags, error, selectedTags, availableTags, draggedItem, dels, session>>

\* the map comparing with the stored id: bookmark.id === data[0].id
ReplaceByStoredId(prev, tempId, data0) ==
  [k \in 1..Len(prev) |-> IF prev[k].id = data0.id THEN data0 ELSE prev[k]]

\* the stored row appended after the placeholder is filtered out
ReplaceAtEnd(prev, tempId, data0) ==
  LET Others(bookmark) == bookmark.id # tempId
  IN  IF SelectSeq(prev, Others) = prev THEN prev ELSE Append(SelectSeq(prev, Others), data0)

\* prev.map(bookmark => bookmark.id === tempId ? data[0] : bookmark)
ReplacePlaceholder(prev, tempId, data0) ==
  [k \in 1..Len(prev) |-> IF prev[k].id = tempId THEN data0 ELSE prev[k]]

\* the row the table returns for an inserted row
Stored(row) ==
  [id |-> Uuid(nextId), user_id |-> row.user_id, url |-> row.url, title |-> row.title,
   summary |-> row.summary, favicon |-> row.favicon, tags |-> row.tags,
   created_at |-> nextId]

\* the store confirms the insert: the placeholder is swapped for the stored row
InsertOk(i) ==
  /\ inv[i].pc = "inserting"
  /\ LET data0 == Stored(inv[i].row)
     IN  /\ store' = store \cup {data0}
         /\ session' = session \cup {data0.id}
         /\ bookmarks' = ReplacePlaceholder(bookmarks, inv[i].tempId, data0)
  /\ nextId' = nextId + 1
  /\ availableTags' = DerivedTags(bookmarks')
  /\ saving' = FALSE
  /\ inv' = [Disturb(i, inv) EXCEPT ![i] =
       [inv[i] EXCEPT !.pc = "stored"]]
  /\ answered' = NoAnswer
  /\ UNCHANGED <<loading, deleting, newUrl, newTags, error, selectedTags,
                 draggedItem, dels>>

\* the store reports an error: catch and finally
InsertError(i) ==
  /\ inv[i].pc = "inserting"
  /\ CatchAdd(inv[i].urlToSave, inv[i].tagsToSave)
  /\ inv' = [Disturb(i, inv) EXCEPT ![i] =
       [inv[i] EXCEPT !.pc = "failed"]]
  /\ answered' = NoAnswer
  /\ UNCHANGED <<store, nextId, loading, deleting, selectedTags, draggedItem, dels,
                 session>>

(* ---------------------------- deleteBookmark --------------------------- *)
\* every selected tag required: selectedTags.every(tag => bookmark.tags.includes(tag))
HasEverySelectedTag(bookmark) ==
  \A k \in 1..Len(selectedTags) : Includes(bookmark.tags, selectedTags[k])

\* Filter bookmarks based on selected tags
HasSelectedTag(bookmark) ==
  \E k \in 1..Len(bookmark.tags) : Includes(selectedTags, bookmark.tags[k])

filteredBookmarks ==
  IF Len(selectedTags) = 0 THEN bookmarks ELSE SelectSeq(bookmarks, HasSelectedTag)

\* the cards on screen whose controls are live
Rendered == IF loading THEN {} ELSE {filteredBookmarks[k] : k \in 1..Len(filteredBookmarks)}
Live == {bookmark \in Rendered : NotLoading(bookmark)}

\* up to the await: the delete is sent to the store
DeleteBookmarkCall(id, limit) ==
  /\ Len(dels) < limit
  /\ deleting' = id
  /\ error' = ""
  /\ dels' = Append(dels, id)
  /\ inv' = Disturb(0, inv)
  /\ answered' = NoAnswer
  /\ UNCHANGED <<store, nextId, bookmarks, loading, saving, newUrl, newTags,
                 selectedTags, availableTags, draggedItem, session>>

DeleteBookmarkStart(id) == DeleteBookmarkCall(id, MaxDeletes)

RemoveAt(s, k) == SubSeq(s, 1, k - 1) \o SubSeq(s, k + 1, Len(s))

\* the delete without its owner filter: delete().eq('id', id)
DeleteAnyOwner(rows, id, owner) == {r \in rows : r.id # id}

\* delete().eq('id', id).eq('user_id', owner)
DeleteOwned(rows, id, owner) == {r \in rows : ~(r.id = id /\ r.user_id = owner)}

\* the filter keeping the entry with the id: bookmark.id === id
KeepOnlyId(prevBookmarks, id) ==
  LET Same(bookmark) == bookmark.id = id
  IN  SelectSeq(prevBookmarks, Same)

\* the entry at the head removed whatever its id: prevBookmarks.slice(1)
RemoveHead(prevBookmarks, id) == SubSeq(prevBookmarks, 2, Len(prevBookmarks))

\* prevBookmarks.filter(bookmark => bookmark.id !== id)
RemoveById(prevBookmarks, id) ==
  LET Others(bookmark) == bookmark.id # id
  IN  SelectSeq(prevBookmarks, Others)

\* the store answers without error: the entry leaves the list
DeleteOk(k) ==
  /\ k \in 1..Len(dels)
  /\ LET id == dels[k]
     IN  /\ store' = DeleteOwned(store, id, Me)
         /\ bookmarks' = RemoveById(bookmarks, id)
  /\ availableTags' = DerivedTags(bookmarks')
  /\ deleting' = Null
  /\ dels' = RemoveAt(dels, k)
  /\ inv' = Disturb(0, inv)
  /\ session' = session \ {dels[k]}
  /\ answered' = [id |-> dels[k], ok |-> TRUE]
  /\ UNCHANGED <<nextId, loading, saving, newUrl, newTags, error, selectedTags,
                 draggedItem>>

\* the store answers with an error
DeleteError(k) ==
  /\ k \in 1..Len(dels)
  /\ error' = FailedToDelete
  /\ deleting' = Null
  /\ dels' = RemoveAt(dels, k)
  /\ inv' = Disturb(0, inv)
  /\ answered' = [id |-> dels[k], ok |-> FALSE]
  /\ UNCHANGED <<store, nextId, bookmarks, loading, saving, newUrl, newTags,
                 selectedTags, availableTags, draggedItem, session>>

(* ----------------------------- tag filters ---------------------------- *)
\* the tag added whether selected or not: [...selectedTags, tag]
ToggleAppends(selected, tag) == Append(selected, tag)

\* the value toggleTagFilter hands to setSelectedTags
ToggleTag(selected, tag) ==
  LET Others(t) == t # tag
  IN  IF Includes(selected, tag) THEN SelectSeq(selected, Others)
      ELSE Append(selected, tag)

toggleTagFilter(tag) ==
  /\ selectedTags' = ToggleTag(selectedTags, tag)
  /\ inv' = Disturb(0, inv)
  /\ answered' = NoAnswer
  /\ UNCHANGED <<store, nextId, bookmarks, loading, saving, deleting, newUrl,
                 newTags, error, availableTags, draggedItem, dels, session>>

clearTagFilters ==
  /\ selectedTags' = <<>>
  /\ inv' = Disturb(0, inv)
  /\ answered' = NoAnswer
  /\ UNCHANGED <<store, nextId, bookmarks, loading, saving, deleting, newUrl,
                 newTags, error, availableTags, draggedItem, dels, session>>

(* ---------------------------- drag and drop --------------------------- *)
handleDragStart(bookmark) ==
  /\ draggedItem' = bookmark
  /\ inv' = Disturb(0, inv)
  /\ answered' = NoAnswer
  /\ UNCHANGED <<store, nextId, bookmarks, loading, saving, deleting, newUrl,
                 newTags, error, selectedTags, availableTags, dels, session>>

\* Array.prototype.splice(start, 1): a negative start counts from the end
SpliceStart(s, start) ==
  IF start < 0 THEN (IF Len(s) + start < 0 THEN 0 ELSE Len(s) + start)
  ELSE Min(start, Len(s))

SpliceOut(s, start) ==
  LET from == SpliceStart(s, start)
  IN  IF from < Len(s)
      THEN [removed |-> <<s[from + 1]>>, rest |-> RemoveAt(s, from + 1)]
      ELSE [removed |-> <<>>, rest |-> s]

\* Array.prototype.splice(start, 0, item)
SpliceIn(s, start, item) ==
  LET from == SpliceStart(s, start)
  IN  SubSeq(s, 1, from) \o <<item>> \o SubSeq(s, from + 1, Len(s))

\* the list handleDrop hands to setBookmarks
Reordered(list, dragged, target) ==
  LET draggedIndex == FindIndexById(list, dragged.id)
      targetIndex == FindIndexById(list, target.id)
      out == SpliceOut(list, draggedIndex)
  IN  SpliceIn(out.rest, targetIndex, out.removed[1])

handleDropSame(targetBookmark) ==
  /\ draggedItem = NoItem \/ draggedItem.id = targetBookmark.id
  /\ draggedItem' = NoItem
  /\ inv' = Disturb(0, inv)
  /\ answered' = NoAnswer
  /\ UNCHANGED <<store, nextId, bookmarks, loading, saving, deleting, newUrl,
                 newTags, error, selectedTags, availableTags, dels, session>>

handleDrop(targetBookmark) ==
  /\ ~(draggedItem = NoItem \/ draggedItem.id = targetBookmark.id)
  /\ bookmarks' = Reordered(filteredBookmarks, draggedItem, targetBookmark)
  /\ availableTags' = DerivedTags(bookmarks')
  /\ draggedItem' = NoItem
  /\ inv' = Disturb(0, inv)
  /\ answered' = NoAnswer
  /\ UNCHANGED <<store, nextId, loading, saving, deleting, newUrl, newTags, error,
                 selectedTags, dels, session>>

(* --------------------------- the component ---------------------------- *)
TypeUrl == FormEnabled /\ \E value \in RawUrls : SetNewUrl(value)
TypeTags == FormEnabled /\ \E value \in RawTags : SetNewTags(value)
SubmitBlank == FormEnabled /\ \E i \in Slots : AddBookmarkBlank(i, newUrl)
SubmitInvalid == FormEnabled /\ \E i \in Slots : AddBookmarkInvalid(i, newUrl, newTags)
SubmitUrl == FormEnabled /\ \E i \in Slots : AddBookmarkStart(i, MaxAdds, newUrl, newTags)
TitleArrives == \E i \in Slots : \E response \in TitleResponses : TitleSettles(i, response)
SummaryArrives ==
  \E i \in Slots : \E response \in SummaryResponses : SummarySettles(i, response)
\* both services answer with content
TitleFound == \E i \in Slots : TitleSettles(i, TitleResponse(FALSE, <<"T">>))
SummaryFound == \E i \in Slots : SummarySettles(i, SummaryResponse(FALSE, 200, 1, 50, 1))
InsertConfirmed == \E i \in Slots : InsertOk(i)
InsertFails == \E i \in Slots : InsertError(i)
ClickDelete ==
  \E bookmark \in Live : deleting # bookmark.id /\ DeleteBookmarkStart(bookmark.id)
DeleteConfirmed == \E k \in 1..Len(dels) : DeleteOk(k)
DeleteFails == \E k \in 1..Len(dels) : DeleteError(k)
ClickTag ==
  ~loading /\ \E k \in 1..Len(availableTags) : toggleTagFilter(availableTags[k])
ClickClear ==
  ~loading /\ Len(availableTags) > 0 /\ Len(selectedTags) > 0 /\ clearTagFilters
DragStart == \E bookmark \in Live : handleDragStart(bookmark)
DropSame == \E bookmark \in Live : handleDropSame(bookmark)
Drop == \E bookmark \in Live : handleDrop(bookmark)

Next ==
  \/ FetchBookmarksOk
  \/ FetchBookmarksError
  \/ TypeUrl
  \/ TypeTags
  \/ SubmitBlank
  \/ SubmitInvalid
  \/ SubmitUrl
  \/ TitleFound
  \/ SummaryFound
  \/ InsertConfirmed
  \/ InsertFails
  \/ ClickDelete
  \/ DeleteConfirmed
  \/ DeleteFails
  \/ ClickTag
  \/ ClickClear
  \/ DragStart
  \/ DropSame
  \/ Drop

Spec == Init /\ [][Next]_vars

\* the ingestion pipeline alone: the form, the fetchers and the store
NextIngest ==
  \/ FetchBookmarksOk
  \/ FetchBookmarksError
  \/ TypeUrl
  \/ TypeTags
  \/ SubmitBlank
  \/ SubmitInvalid
  \/ SubmitUrl
  \/ TitleArrives
  \/ SummaryArrives
  \/ InsertConfirmed
  \/ InsertFails

SpecIngest == Init /\ [][NextIngest]_vars

\* addBookmark(rawUrl, rawTags) as an operation a caller may invoke while an
\* earlier invocation is still awaiting: the form's disabled={saving} is left out
CallBlank ==
  ~loading /\ \E i \in Slots : \E rawUrl \in RawUrls : AddBookmarkBlank(i, rawUrl)
CallInvalid ==
  ~loading /\ \E i \in Slots : \E rawUrl \in RawUrls : \E rawTags \in RawTags :
                AddBookmarkInvalid(i, rawUrl, rawTags)
CallUrl ==
  ~loading /\ \E i \in Slots : \E rawUrl \in RawUrls : \E rawTags \in RawTags :
                AddBookmarkStart(i, MaxSlots, rawUrl, rawTags)

NextConcurrent ==
  \/ FetchBookmarksOk
  \/ FetchBookmarksError
  \/ CallBlank
  \/ CallInvalid
  \/ CallUrl
  \/ TitleFound
  \/ SummaryFound
  \/ InsertConfirmed
  \/ InsertFails

SpecConcurrent == Init /\ [][NextConcurrent]_vars

\* the list controller alone, with deleteBookmark calls that overlap and calls
\* that name a row of another user
ClickDeleteMore ==
  \E bookmark \in Live :
    deleting # bookmark.id /\ DeleteBookmarkCall(bookmark.id, MaxDeleteCalls)
DeleteForeign ==
  /\ ~loading
  /\ \E r \in store : r.user_id # Me /\ DeleteBookmarkCall(r.id, MaxDeleteCalls)

NextDelete ==
  \/ FetchBookmarksOk
  \/ FetchBookmarksError
  \/ ClickDeleteMore
  \/ DeleteForeign
  \/ DeleteConfirmed
  \/ DeleteFails
  \/ ClickTag
  \/ ClickClear

SpecDelete == Init /\ [][NextDelete]_vars

\* the tag filter over a list that gains a bookmark
NextFilter ==
  \/ FetchBookmarksOk
  \/ FetchBookmarksError
  \/ TypeUrl
  \/ TypeTags
  \/ SubmitUrl
  \/ TitleFound
  \/ SummaryFound
  \/ InsertConfirmed
  \/ ClickTag
  \/ ClickClear

SpecFilter == Init /\ [][NextFilter]_vars

\* one addBookmark call with every raw tag string up to MaxTagLen characters
TagAlphabet == {"a", "B", ",", " "}
TagStrings == UNION { [1..n -> TagAlphabet] : n \in 0..MaxTagLen }

CallTagged ==
  /\ ~loading
  /\ \E i \in Slots : \E rawTags \in TagStrings :
       AddBookmarkStart(i, 1, <<"A", ".", "i", "o">>, rawTags)

NextTags ==
  \/ FetchBookmarksOk
  \/ FetchBookmarksError
  \/ CallTagged
  \/ TitleFound
  \/ SummaryFound
  \/ InsertConfirmed

SpecTags == Init /\ [][NextTags]_vars

\* one addBookmark call, the reader service answering in every way that
\* generateSummary tells apart
SummaryPolicyResponses ==
  { SummaryResponse(TRUE, 0, 0, 0, 0) }
    \cup { SummaryResponse(FALSE, status, 0, 50, 0) : status \in {404, 500} }
    \cup { SummaryResponse(FALSE, 200, lead, core, trail) :
             lead \in {0, MaxLead},
             core \in {0, MinSummaryLength - 1, MinSummaryLength, MaxSummaryLength,
                       MaxSummaryLength + 1, MaxSummaryLength + 100},
             trail \in {0, 1} }

CallOne ==
  /\ ~loading
  /\ \E i \in Slots : AddBookmarkStart(i, 1, <<"A", ".", "i", "o">>, <<>>)
SummaryAnswers ==
  \E i \in Slots : \E response \in SummaryPolicyResponses : SummarySettles(i, response)

NextSummary ==
  \/ FetchBookmarksOk
  \/ FetchBookmarksError
  \/ CallOne
  \/ TitleFound
  \/ SummaryAnswers
  \/ InsertConfirmed

SpecSummary == Init /\ [][NextSummary]_vars

(* ------------------------------- claims ------------------------------- *)
HasId(list, id) == \E k \in 1..Len(list) : list[k].id = id
Count(list, x) == Cardinality({k \in 1..Len(list) : list[k] = x})
Entries(list) == {list[k] : k \in 1..Len(list)}
\* the same entries, each as often
SameEntries(a, b) ==
  /\ Len(a) = Len(b)
  /\ \A x \in Entries(a) \cup Entries(b) : Count(a, x) = Count(b, x)

\* C1: when the store insert of an invocation fails and no other operation ran
\* since the call, the list is the list before the call (no placeholder is left),
\* newUrl and newTags hold the raw input again and the "failed to add" error is set.
C1_RollbackRestores ==
  \A i \in Slots :
    (inv[i].pc = "failed" /\ inv[i].clean) =>
      /\ bookmarks = inv[i].before
      /\ ~HasId(bookmarks, inv[i].tempId)
      /\ \A k \in 1..Len(bookmarks) : NotLoading(bookmarks[k])
      /\ newUrl = inv[i].urlToSave
      /\ newTags = inv[i].tagsToSave
      /\ error = FailedToAdd
      /\ ~saving

C1_Witness ==
  \E i \in Slots :
    /\ inv[i].pc = "failed"
    /\ inv[i].clean
    /\ Len(bookmarks) > 0
    /\ inv[i].tagsToSave # <<>>

\* C2: every pending entry of the list belongs to an invocation that is still
\* awaiting its fetchers or the store; once the store has answered (stored or
\* failed), no entry carries the invocation's temporary id.
C2_NoPlaceholderLeft ==
  /\ \A k \in 1..Len(bookmarks) :
       IsLoading(bookmarks[k]) =>
         \E i \in Slots : InFlight(i) /\ inv[i].tempId = bookmarks[k].id
  /\ \A i \in Slots :
       inv[i].pc \in {"stored", "failed"} => ~HasId(bookmarks, inv[i].tempId)

C2_Witness ==
  \E i \in Slots :
    /\ inv[i].pc = "stored"
    /\ HasId(bookmarks, Uuid(nextId - 1))
    /\ ~inv[i].clean

Quiescent == ~loading /\ dels = <<>> /\ \A i \in Slots : ~InFlight(i)

C4_NoLostUpdates ==
  Quiescent =>
    /\ \A id \in session :
         Cardinality({k \in 1..Len(bookmarks) : bookmarks[k].id = id}) = 1
    /\ \A k \in 1..Len(bookmarks) : bookmarks[k] \in store

\* C5: the step that starts an invocation's fetchers starts both and has put the
\* placeholder at the head of the list; the insert is in flight only when both
\* fetchers have settled; a placeholder gives way to a stored row only in the
\* step in which the store confirms the insert, and the row is in the table.
C5_Ordering ==
  /\ [](\A i \in Slots :
          inv[i].pc = "inserting" => inv[i].title.done /\ inv[i].summary.done)
  /\ [][\A i \in Slots :
          (~InFlight(i) /\ inv'[i].pc \in Running) =>
            /\ inv'[i].pc = "fetching"
            /\ ~inv'[i].title.done /\ ~inv'[i].summary.done
            /\ Len(bookmarks') = Len(bookmarks) + 1
            /\ bookmarks'[1].id = inv'[i].tempId
            /\ IsLoading(bookmarks'[1])]_vars
  /\ [][\A i \in Slots : \A k \in 1..Len(bookmarks) :
          (/\ InFlight(i)
           /\ bookmarks[k].id = inv[i].tempId
           /\ Len(bookmarks') = Len(bookmarks)
           /\ bookmarks'[k] # bookmarks[k]
           /\ NotLoading(bookmarks'[k])) =>
            /\ inv[i].pc = "inserting"
            /\ inv'[i].pc = "stored"
            /\ bookmarks'[k] \in store' \ store]_vars

C5_Witness ==
  \E i \in Slots :
    /\ inv[i].pc = "stored"
    /\ inv[i].clean
    /\ bookmarks[1] \in store
    /\ bookmarks[1].id = Uuid(nextId - 1)
    /\ bookmarks[1].tags # <<>>

\* C6: a call whose raw URL is empty or whitespace, or does not parse as an
\* absolute URL, leaves the list and the table as they were and starts no
\* fetcher and no insert: no invocation is awaiting anything after it.
C6_RejectedNoEffect ==
  /\ [](\A i \in Slots :
          inv[i].pc = "rejected" =>
            /\ bookmarks = inv[i].before
            /\ \A k \in 1..Len(bookmarks) : NotLoading(bookmarks[k])
            /\ inv[i].row = NoRow /\ ~inv[i].title.done /\ ~inv[i].summary.done
            /\ \A j \in Slots : ~InFlight(j))
  /\ [][(SubmitBlank \/ SubmitInvalid) =>
          /\ bookmarks' = bookmarks
          /\ store' = store /\ nextId' = nextId
          /\ \A j \in Slots : inv'[j].pc \notin Running]_vars

C6_Witness ==
  \E i \in Slots :
    /\ inv[i].pc = "rejected"
    /\ Len(inv[i].before) > 1
    /\ error = FailedToAdd

\* C7: the step in which the store confirms an insert changes the list only at
\* the entries that carry the invocation's temporary id, which become the stored
\* row, where they were; when no other operation ran since the call that is the
\* head of the list.
C7_SwapInPlace ==
  [][\A i \in Slots :
       (inv[i].pc = "inserting" /\ inv'[i].pc = "stored") =>
         \E row \in store' \ store :
           /\ Len(bookmarks') = Len(bookmarks)
           /\ \A k \in 1..Len(bookmarks) :
                bookmarks'[k] = IF bookmarks[k].id = inv[i].tempId THEN row
                                ELSE bookmarks[k]
           /\ inv[i].clean =>
                /\ bookmarks[1].id = inv[i].tempId
                /\ bookmarks'[1] = row
                /\ Tail(bookmarks') = inv[i].before]_vars

C7_Witness ==
  \E i \in Slots :
    /\ inv[i].pc = "stored"
    /\ Len(bookmarks) > 2
    /\ bookmarks[1].id = Uuid(nextId - 1)
    /\ bookmarks[2].id = Uuid(1)

\* C8: an invocation hands the store one row, once both fetchers have settled:
\* owner the current user, the normalized URL, the title and summary the
\* fetchers resolved to (not the placeholder's markers), the favicon of the URL
\* and the parsed tags, with no id and no isLoading field; every row the table
\* gains is that row of one invocation.
C8_RowComplete ==
  /\ [](\A i \in Slots :
          inv[i].pc \in {"inserting", "stored", "failed"} =>
            LET s == inv[i]
                url == ParseURL(WithScheme(s.urlToSave))
            IN  /\ url.ok
                /\ s.row.user_id = Me
                /\ s.row.url = url.href
                /\ s.title.done /\ s.row.title = s.title.value
                /\ s.row.title \notin {LoadingTitle, <<>>}
                /\ s.summary.done /\ s.row.summary = s.summary.value
                /\ s.row.summary # GeneratingSummary
                /\ s.row.favicon = getFaviconUrl(url.href)
                /\ s.row.tags = ParseTags(s.tagsToSave)
                /\ DOMAIN s.row \cap {"id", "isLoading"} = {})
  /\ [](\A r \in store \ InitialRows :
          /\ r.user_id = Me
          /\ r.id \in {Uuid(n) : n \in FirstNewId..(nextId - 1)}
          /\ r.title # LoadingTitle /\ r.summary # GeneratingSummary
          /\ "isLoading" \notin DOMAIN r)
  /\ [][store' # store =>
          \E i \in Slots :
            /\ inv[i].pc = "inserting" /\ inv'[i].pc = "stored"
            /\ store' = store \cup {Stored(inv[i].row)}
            /\ Cardinality(store') = Cardinality(store) + 1]_vars

C8_Witness ==
  \E i \in Slots : \E r \in store \ InitialRows :
    /\ inv[i].pc = "stored"
    /\ r.tags = << <<"b">>, <<"b">> >>
    /\ r.title = <<"T">>
    /\ r.summary = BodyText(50, FALSE)

\* C9: whatever the two services answer, neither fetcher rejects, the title and
\* the summary it settles to are defined, and while the invocation awaits them or
\* the store no error is set and its placeholder stays: once both have settled
\* the insert is in flight.
C9_FetchFailuresAbsorbed ==
  /\ [](\A i \in Slots :
          InFlight(i) =>
            /\ inv[i].title.done =>
                 ~inv[i].title.threw /\ inv[i].title.value # <<>>
            /\ inv[i].summary.done =>
                 ~inv[i].summary.threw /\ inv[i].summary.value # GeneratingSummary
            /\ (inv[i].title.done /\ inv[i].summary.done) => inv[i].pc = "inserting"
            /\ error = ""
            /\ saving
            /\ HasId(bookmarks, inv[i].tempId))
  /\ [][(TitleArrives \/ SummaryArrives) =>
          UNCHANGED <<bookmarks, error, saving, newUrl, newTags, store>>]_vars

C9_Witness ==
  \E i \in Slots :
    /\ inv[i].pc = "inserting"
    /\ inv[i].row.title = <<"a", ".", "i", "o">>
    /\ inv[i].row.summary = UnableStatus(500)

\* C10: a drop leaves the list a permutation of the list before it, whatever the
\* tag filter, and sends nothing to the store.
C10_DropIsPermutation ==
  [][(\E target \in Live : handleDrop(target)) =>
       /\ SameEntries(bookmarks', bookmarks)
       /\ store' = store
       /\ dels' = dels]_vars

\* the entries of before whose id is not the given one, each where it was
\* relative to the others
KeptInOrder(before, after, id) ==
  LET Gone(k) == Cardinality({j \in 1..k : before[j].id = id})
  IN  /\ Len(after) = Len(before) - Gone(Len(before))
      /\ \A k \in 1..Len(before) :
           before[k].id # id => after[k - Gone(k)] = before[k]

\* C11: deleteBookmark(id) sets the deleting marker and sends one delete; the
\* store's answer clears the marker; on success the table loses the row with that
\* id owned by the current user and the list loses the entries with that id, the
\* others keeping their order; on an error the list and the table are unchanged
\* and the "failed to delete" error is set.
C11_DeleteContract ==
  /\ [][Len(dels') > Len(dels) =>
          /\ dels' = Append(dels, deleting')
          /\ error' = ""
          /\ bookmarks' = bookmarks /\ store' = store]_vars
  /\ [][answered'.id # Null =>
          LET id == answered'.id
          IN  /\ \E k \in 1..Len(dels) : dels[k] = id /\ dels' = RemoveAt(dels, k)
              /\ deleting' = Null
              /\ answered'.ok =>
                   /\ store' = {r \in store : r.id # id \/ r.user_id # Me}
                   /\ KeptInOrder(bookmarks, bookmarks', id)
                   /\ ~HasId(bookmarks', id)
                   /\ error' = error
              /\ ~answered'.ok =>
                   /\ bookmarks' = bookmarks /\ store' = store
                   /\ error' = FailedToDelete]_vars

C11_Witness ==
  /\ answered = [id |-> Uuid(2), ok |-> TRUE]
  /\ Len(bookmarks) = 2
  /\ bookmarks[1].id = Uuid(FirstNewId)
  /\ bookmarks[2].id = Uuid(1)

\* the current user's rows of the table at the start, newest first
LoadedList == CHOOSE list \in Descending({r \in InitialRows : r.user_id = Me}) : TRUE

\* C12: with deletes overlapping, for different ids or twice for the same id and
\* answered in any order, the list is the loaded list without the entries whose
\* delete the store has answered without error, and nothing else is gone; an
\* answer without error, the second for an id too, leaves the error as it was
\* and the id absent from the list.
C12_DeletesIndependent ==
  /\ [](~loading =>
          LET Left(r) == r.id \in session
          IN  bookmarks = SelectSeq(LoadedList, Left))
  /\ [](session \subseteq {LoadedList[k].id : k \in 1..Len(LoadedList)})
  /\ [][(answered'.id # Null /\ answered'.ok) =>
          /\ error' = error
          /\ ~HasId(bookmarks', answered'.id)
          /\ session' = session \ {answered'.id}]_vars
  /\ [][(answered'.id # Null /\ ~answered'.ok) => session' = session]_vars

C12_Witness ==
  /\ answered = [id |-> Uuid(1), ok |-> TRUE]
  /\ dels = <<Uuid(1)>>
  /\ ~HasId(bookmarks, Uuid(1))
  /\ HasId(bookmarks, Uuid(2))
  /\ error = ""

\* C13: whatever id deleteBookmark is given, the rows of other users stay in the
\* table: a delete removes only rows of the current user; and the list holds only
\* rows of the current user.
C13_OwnerIsolation ==
  /\ [](\A r \in InitialRows : r.user_id # Me => r \in store)
  /\ [](\A k \in 1..Len(bookmarks) :
          NotLoading(bookmarks[k]) => bookmarks[k].user_id = Me)
  /\ [][answered'.id # Null => \A r \in store \ store' : r.user_id = Me]_vars

C13_Witness ==
  /\ answered = [id |-> Uuid(3), ok |-> TRUE]
  /\ \E r \in store : r.id = Uuid(3) /\ r.user_id = Other
  /\ Len(bookmarks) = 2

Range(s) == {s[k] : k \in 1..Len(s)}

\* C14: the filtered view is the list when no tag is selected; otherwise it is
\* the entries that have at least one selected tag, in list order, so an entry
\* without tags is not in it.
C14_FilterSemantics ==
  LET Shown(b) == selectedTags = <<>> \/ Range(b.tags) \cap Range(selectedTags) # {}
      Hidden(k) == Cardinality({j \in 1..k : ~Shown(bookmarks[j])})
  IN  /\ selectedTags = <<>> => filteredBookmarks = bookmarks
      /\ Len(filteredBookmarks) = Len(bookmarks) - Hidden(Len(bookmarks))
      /\ \A k \in 1..Len(bookmarks) :
           Shown(bookmarks[k]) => filteredBookmarks[k - Hidden(k)] = bookmarks[k]
      /\ \A k \in 1..Len(filteredBookmarks) :
           selectedTags # <<>> => filteredBookmarks[k].tags # <<>>

C14_Witness ==
  /\ Len(selectedTags) = 2
  /\ Len(bookmarks) = 3
  /\ bookmarks[1].tags = <<>>
  /\ bookmarks[3].tags = << <<"a">> >>
  /\ Len(filteredBookmarks) = 2

\* C15: toggleTagFilter(tag) selects the tag when it is not selected and
\* unselects it when it is, leaves the list and the table alone, never leaves a
\* tag selected twice, and applied twice gives the selection it started from.
C15_ToggleTag ==
  /\ [](\A j, k \in 1..Len(selectedTags) : selectedTags[j] = selectedTags[k] => j = k)
  /\ [](\A tag \in Range(availableTags) :
          Range(ToggleTag(ToggleTag(selectedTags, tag), tag)) = Range(selectedTags))
  /\ [][\A tag \in Range(availableTags) :
          toggleTagFilter(tag) =>
            /\ tag \in Range(selectedTags) =>
                 Range(selectedTags') = Range(selectedTags) \ {tag}
            /\ tag \notin Range(selectedTags) =>
                 Range(selectedTags') = Range(selectedTags) \cup {tag}
            /\ bookmarks' = bookmarks /\ store' = store]_vars

C15_Witness ==
  /\ selectedTags = << <<"b">>, <<"a">> >>
  /\ Len(bookmarks) = 2

TagLists(i) ==
  {inv[i].tags}
    \cup {bookmarks[k].tags : k \in {j \in 1..Len(bookmarks) : bookmarks[j].id = inv[i].tempId}}
    \cup (IF inv[i].pc \in {"inserting", "stored", "failed"} THEN {inv[i].row.tags} ELSE {})
    \cup (IF inv[i].pc = "stored" THEN {r.tags : r \in store \ InitialRows} ELSE {})

Called(i) == inv[i].pc \in Running \cup {"stored", "failed"}

\* C17: the tags of a placeholder and of a row handed to the store hold no empty
\* tag and no tag twice.
C17_TagsSetLike ==
  \A i \in Slots :
    Called(i) =>
      \A tags \in TagLists(i) :
        /\ \A k \in 1..Len(tags) : tags[k] # <<>>
        /\ \A j, k \in 1..Len(tags) : tags[j] = tags[k] => j = k

\* C17, as the code has it: the tags of a placeholder and of a row handed to the
\* store hold no empty tag and no tag with a space at either end; a tag may
\* occur more than once.
C17_NoEmptyTag ==
  \A i \in Slots :
    Called(i) =>
      \A tags \in TagLists(i) : \A k \in 1..Len(tags) :
        /\ tags[k] # <<>>
        /\ tags[k][1] # " " /\ tags[k][Len(tags[k])] # " "

C17_Witness ==
  \E i \in Slots :
    /\ inv[i].pc = "stored"
    /\ inv[i].tagsToSave = <<"B", ",", ",", "B">>
    /\ \E r \in store : r.id = Uuid(FirstNewId) /\ r.tags = << <<"b">>, <<"b">> >>

\* the segments of raw between commas, by position: segment p runs from after
\* the comma (or start) at p to before the next comma (or end)
SegmentStarts(raw) == {0} \cup {k \in 1..Len(raw) : raw[k] = ","}
SegmentEnd(raw, p) ==
  CHOOSE q \in (p + 1)..(Len(raw) + 1) :
    /\ q = Len(raw) + 1 \/ raw[q] = ","
    /\ \A k \in (p + 1)..(q - 1) : raw[k] # ","
Inked(raw, p) == {k \in (p + 1)..(SegmentEnd(raw, p) - 1) : raw[k] # " "}
Lowest(S) == CHOOSE x \in S : \A y \in S : x <= y
Highest(S) == CHOOSE x \in S : \A y \in S : x >= y
Lower(c) == IF c = "B" THEN "b" ELSE c
ExpectedTags(raw) ==
  LET kept == {p \in SegmentStarts(raw) : Inked(raw, p) # {}}
      Nth(n) == CHOOSE p \in kept : Cardinality({q \in kept : q <= p}) = n
      TagAt(p) == [k \in 1..(Highest(Inked(raw, p)) - Lowest(Inked(raw, p)) + 1) |->
                     Lower(raw[Lowest(Inked(raw, p)) + k - 1])]
  IN  [n \in 1..Cardinality(kept) |-> TagAt(Nth(n))]

\* C18: the tags of an invocation are the segments of the raw string between
\* commas, each without the spaces around it and in lower case, the segments of
\* spaces only left out, in the order of the raw string and as often as they
\* occur; the empty string gives no tag.
C18_TagParsing ==
  /\ ExpectedTags(<<>>) = <<>> /\ ParseTags(<<>>) = <<>>
  /\ \A i \in Slots :
       Called(i) => \A tags \in TagLists(i) : tags = ExpectedTags(inv[i].tagsToSave)

C18_Witness ==
  \E i \in Slots :
    /\ inv[i].pc = "stored"
    /\ inv[i].tagsToSave = <<"a", ",", " ", "B">>
    /\ \E r \in store : r.id = Uuid(FirstNewId) /\ r.tags = << <<"a">>, <<"b">> >>
    /\ bookmarks[1].tags = << <<"a">>, <<"b">> >>

\* the number of characters of a summary
Digits(n) == IF n < 10 THEN 1 ELSE IF n < 100 THEN 2 ELSE 3
SummaryLength(s) ==
  IF s.lit = "" THEN s.chars + (IF s.ellipsis THEN 3 ELSE 0)
  ELSE Len(s.lit) + (IF s.status = 0 THEN 0 ELSE Digits(s.status))

\* the summary the policy gives for a response
ExpectedSummary(response) ==
  LET raw == response.lead + response.core + response.trail
      trimmed == response.core
  IN  IF response.throws THEN UnableToGenerate
      ELSE IF response.status < 200 \/ response.status > 299
           THEN UnableStatus(response.status)
      ELSE IF raw < 10 THEN UnableToGenerate
      ELSE IF trimmed <= 400 THEN BodyText(trimmed, FALSE)
      ELSE BodyText(400, TRUE)

\* C19: a non-success status gives the fallback with the status code; an
\* exception or a body of fewer than 10 characters gives the generic fallback;
\* otherwise the summary is the trimmed body, cut to 400 characters plus '...'
\* when it is longer; so the summary generateSummary returns is never empty
\* and never longer than 403 characters.
C19_SummaryPolicy ==
  [][\A i \in Slots : \A response \in SummaryPolicyResponses :
       SummarySettles(i, response) =>
         LET summary == inv'[i].summary.value
         IN  /\ summary = ExpectedSummary(response)
             /\ ~inv'[i].summary.threw
             /\ SummaryLength(summary) >= 1
             /\ SummaryLength(summary) <= 403]_vars

\* C20: while an addBookmark call is blocked on a fetcher or store call that
\* has not answered, the user can still submit another bookmark: the form's
\* fields and its button are enabled.
C20_FormOperableWhileHung ==
  \A i \in Slots : InFlight(i) => FormEnabled

\* the list is in descending order of creation time
NewestFirst(list) ==
  \A k \in 1..Len(list) : \A l \in 1..Len(list) :
    k < l => list[k].created_at >= list[l].created_at

\* the list holds each of the owner's rows once, and nothing else
ExactlyRowsOf(list, owner) ==
  /\ Entries(list) = {r \in store : r.user_id = owner}
  /\ Len(list) = Cardinality({r \in store : r.user_id = owner})

\* C21: when fetchBookmarks succeeds the list becomes exactly the current
\* user's rows, newest first; when it fails the list is unchanged and the
\* error 'Failed to load bookmarks' is set; either way loading ends false.
\* The load happens once: loading never becomes true again, and while it is
\* pending no addBookmark or deleteBookmark is in flight.
C21_ListLoad ==
  /\ [][loading =>
          /\ ~loading'
          /\ \/ /\ ExactlyRowsOf(bookmarks', Me)
                /\ NewestFirst(bookmarks')
                /\ error' = error
             \/ /\ bookmarks' = bookmarks
                /\ error' = FailedToLoad]_vars
  /\ [][~loading => ~loading']_vars
  /\ [](loading => dels = <<>> /\ \A i \in Slots : inv[i].pc = "idle")

C21_Witness ==
  /\ ~loading
  /\ error = ""
  /\ Len(bookmarks) = 2
  /\ ExactlyRowsOf(bookmarks, Me)
  /\ NewestFirst(bookmarks)
  /\ \E r \in store : r.user_id # Me

\* C22: every selected filter tag is one of the derived tags, the distinct
\* tags of the bookmarks in the list; deleting or rolling back the last
\* bookmark that carries a selected tag does not leave the tag selected.
C22_SelectedAreAvailable ==
  /\ availableTags = DerivedTags(bookmarks)
  /\ Range(selectedTags) \subseteq Range(availableTags)

\* C23: for the whole time a deleteBookmark(id) call started from a listed
\* bookmark's delete control is in flight, the deleting marker equals id,
\* also when a delete of another id starts or completes in the meantime.
C23_DeleteGuard ==
  (\A k \in 1..Len(dels) : HasId(bookmarks, dels[k])) =>
    \A k \in 1..Len(dels) : deleting = dels[k]

====
